---- MODULE Spec2Model ----
(***************************************************************************)
(* Startup of the cert-manager controller command                          *)
(* (cmd/controller/app/start.go): newServerCommand builds the default      *)
(* configuration and the cobra command, the command framework parses the   *)
(* argument vector once, and RunE runs loadConfigFromFile (validate, load  *)
(* the optional configuration file, deep-copy it over the live             *)
(* configuration, re-parse the flags, validate again) before handing the   *)
(* live configuration to run.                                              *)
(***************************************************************************)
EXTENDS Integers, Sequences, FiniteSets, TLC

\* Most flags bound to configuration fields on one command line.
MaxArgs == 2

\* ------------------------------------------------------------------------
\* The configuration object and its flags
\* ------------------------------------------------------------------------

\* Fields of config.ControllerConfiguration that the command reads or binds.
Fields == {"LeaderElect", "Logging", "FeatureGates"}

LogFormats == {"text", "json", "xml"}
ValidLogFormats == {"text", "json"}
GateSets == {{}, {"G"}, {"X"}}
KnownGates == {"G"}

\* Every fully populated configuration object.
ControllerConfiguration ==
    [LeaderElect : BOOLEAN, Logging : LogFormats, FeatureGates : GateSets]

\* Go's zero value, standing for "no object yet".
ZeroConfig == [LeaderElect |-> FALSE, Logging |-> "", FeatureGates |-> {}]

\* options.NewControllerConfiguration(): the built-in defaults.
NewControllerConfiguration ==
    [LeaderElect |-> TRUE, Logging |-> "text", FeatureGates |-> {}]

\* The command line: name/value tokens. "config" is the flag bound to
\* controllerFlags.Config, the others are bound to the fields of the live
\* configuration by options.AddConfigFlags.
ConfigPath == "c.yaml"
FlagTokens ==
    {<<"LeaderElect", s>> : s \in {"true", "false"}}
        \cup {<<"Logging", s>> : s \in LogFormats}
        \cup {<<"FeatureGates", s>> : s \in {"", "G=true", "X=true"}}
        \cup {<<"config", ConfigPath>>}

\* Argument vectors: at most MaxArgs field flags, in any order and with
\* repetitions, and at most one --config.
ArgVectors ==
    {a \in UNION {[1..n -> FlagTokens] : n \in 0..(MaxArgs + 1)} :
        /\ Cardinality({i \in 1..Len(a) : a[i][1] = "config"}) <= 1
        /\ Cardinality({i \in 1..Len(a) : a[i][1] # "config"}) <= MaxArgs}

\* The typed value a flag's Set method stores for the text on the command line.
ParseValue(name, s) ==
    CASE name = "LeaderElect" -> (s = "true")
      [] name = "Logging" -> s
      [] name = "FeatureGates" ->
            (IF s = "G=true" THEN {"G"} ELSE IF s = "X=true" THEN {"X"} ELSE {})

\* The parse target: the live configuration and controllerFlags.Config.
Bound(c, p) == [cfg |-> c, Config |-> p]

\* One flag occurrence: only the variable bound to that flag is written.
SetFlag(b, tok) ==
    IF tok[1] = "config"
    THEN [b EXCEPT !.Config = tok[2]]
    ELSE [b EXCEPT !.cfg[tok[1]] = ParseValue(tok[1], tok[2])]

\* The flag occurrences of an argument vector, applied left to right.
RECURSIVE ApplyFlags(_, _)
ApplyFlags(b, args) ==
    IF args = <<>> THEN b ELSE ApplyFlags(SetFlag(b, Head(args)), Tail(args))

\* A parse that first puts every flag back to its default.
ParseFlagsResettingDefaults(b, args) ==
    ApplyFlags(Bound(NewControllerConfiguration, ""), args)

\* cmd.ParseFlags(args): the flags that occur in args are set, left to right;
\* a flag that does not occur keeps whatever its variable holds.
ParseFlags(b, args) == ApplyFlags(b, args)

\* The flags that occur in an argument vector, and the value each ends up with.
Typed(args) == {args[i][1] : i \in 1..Len(args)} \ {"config"}
FlagValue(args, x) ==
    LET last == CHOOSE i \in 1..Len(args) :
                    /\ args[i][1] = x
                    /\ \A j \in (i+1)..Len(args) : args[j][1] # x
    IN  ParseValue(x, args[last][2])

\* ------------------------------------------------------------------------
\* The configuration file
\* ------------------------------------------------------------------------

\* What the path may refer to: nothing, bytes that do not decode, a document
\* of another kind, or a document that sets some of the fields.
Documents ==
    {[x \in D |-> c[x]] : c \in ControllerConfiguration, D \in SUBSET Fields}
FileStates ==
    {[kind |-> k, doc |-> <<>>] : k \in {"missing", "garbage", "wrongKind"}}
        \cup {[kind |-> "doc", doc |-> d] : d \in Documents}

\* controllerconfigfile.New() followed by a successful Load: an independently
\* defaulted object with the document's fields decoded over the defaults.
LoadedConfig(doc) ==
    [x \in Fields |->
        IF x \in DOMAIN doc THEN doc[x] ELSE NewControllerConfiguration[x]]

\* The reason Load fails for a file, "" when it succeeds.
LoadFailure(f) ==
    CASE f.kind = "missing" -> "no such file or directory"
      [] f.kind = "garbage" -> "couldn't decode"
      [] f.kind = "wrongKind" -> "unsupported kind"
      [] OTHER -> ""

\* filepath.Abs: a relative path is joined to the working directory.
Abs(p) == IF p = ConfigPath THEN "/work/c.yaml" ELSE p

\* ------------------------------------------------------------------------
\* Errors
\* ------------------------------------------------------------------------

Error(m, p, c) == [msg |-> m, path |-> p, cause |-> c]
nil == Error("", "", "")

\* fmt.Errorf("failed to load config file %s, error %v", configFilePath, err)
LoadErrorNamingResolvedPath(configFilePath, cause) ==
    Error("failed to load config file", Abs(configFilePath), cause)

LoadError(configFilePath, cause) ==
    Error("failed to load config file", configFilePath, cause)

\* fmt.Errorf("failed to re-parse flags: %w", err)
ReparseError(cause) == Error("failed to re-parse flags", "", cause)

\* ------------------------------------------------------------------------
\* State
\* ------------------------------------------------------------------------

VARIABLES
    pc,                        \* position of the process
    allArgs,                   \* the argument vector given to the command
    file,                      \* what the configuration file path refers to
    cfg,                       \* controllerConfig, the live configuration
    Config,                    \* controllerFlags.Config
    flagsRegistered,           \* AddFlags / AddConfigFlags have run
    phase1,                    \* the live configuration when RunE is entered
    configFilePath,            \* loadConfigFromFile's parameter
    controllerConfigFile,      \* the resolved path
    controllerConfigFromFile,  \* the object the file is loaded into
    args,                      \* the arguments Find returns
    err,                       \* loadConfigFromFile's return value
    steps,                     \* the calls loadConfigFromFile has made, in order
    fnSeen,                    \* the configuration each callback call observed
    active,                    \* logging and feature gates in force
    runArgs,                   \* the configuration of each call of run
    runReturns,                \* what each call of run returned
    result,                    \* RunE's return value
    log,                       \* messages logged by newServerCommand
    exitCode,                  \* status of os.Exit, -1 while the process lives
    call,                      \* number of loadConfigFromFile invocations
    firstCfg                   \* the live configuration after the first one

vars == <<pc, allArgs, file, cfg, Config, flagsRegistered, phase1,
          configFilePath, controllerConfigFile, controllerConfigFromFile, args,
          err, steps, fnSeen, active, runArgs, runReturns, result, log,
          exitCode, call, firstCfg>>

inputs == <<allArgs, file>>
history == <<steps, fnSeen, runArgs, runReturns>>
twice == <<call, firstCfg>>

RunError == Error("run", "", "controller stopped with an error")

Init ==
    /\ pc = "new"
    /\ allArgs \in ArgVectors
    /\ file \in FileStates
    /\ cfg = ZeroConfig
    /\ Config = ""
    /\ flagsRegistered = FALSE
    /\ phase1 = ZeroConfig
    /\ configFilePath = ""
    /\ controllerConfigFile = ""
    /\ controllerConfigFromFile = ZeroConfig
    /\ args = <<>>
    /\ err = nil
    /\ steps = <<>>
    /\ fnSeen = <<>>
    /\ active = [Logging |-> "text", FeatureGates |-> {}]
    /\ runArgs = <<>>
    /\ runReturns = <<>>
    /\ result = nil
    /\ log = <<>>
    /\ exitCode = -1
    /\ call = 0
    /\ firstCfg = ZeroConfig

\* ------------------------------------------------------------------------
\* The validation callback
\* ------------------------------------------------------------------------

\* logf.ValidateAndApply(&controllerConfig.Logging)
LoggingValid(c) == c.Logging \in ValidLogFormats
\* utilfeature.DefaultMutableFeatureGate.SetFromMap(controllerConfig.FeatureGates)
GatesValid(c) == c.FeatureGates \subseteq KnownGates

\* A callback that cannot be repeated: feature gates that are already in force
\* are refused.
fnResultRefusingRepeat(c) ==
    IF ~LoggingValid(c)
    THEN Error("failed to validate controller logging flags", "", "logging")
    ELSE IF ~GatesValid(c) \/ (c.FeatureGates # {} /\ active.FeatureGates = c.FeatureGates)
    THEN Error("failed to set feature gates from initial flags-based config",
               "", "gates")
    ELSE nil

\* The callback's return value for the configuration it observes.
fnResult(c) ==
    IF ~LoggingValid(c)
    THEN Error("failed to validate controller logging flags", "", "logging")
    ELSE IF ~GatesValid(c)
    THEN Error("failed to set feature gates from initial flags-based config",
               "", "gates")
    ELSE nil

\* The process-wide facilities after the callback has run: logging is applied
\* first, the feature gates only when logging was valid.
fnApply(a, c) ==
    IF ~LoggingValid(c) THEN a
    ELSE IF ~GatesValid(c) THEN [a EXCEPT !.Logging = c.Logging]
    ELSE [a EXCEPT !.Logging = c.Logging, !.FeatureGates = c.FeatureGates]

\* ------------------------------------------------------------------------
\* newServerCommand
\* ------------------------------------------------------------------------

\* The default configuration is built, the command is constructed and the
\* flags are registered with the defaults as their initial values.
ConstructCommand ==
    /\ pc = "new"
    /\ cfg' = NewControllerConfiguration
    /\ flagsRegistered' = TRUE
    /\ pc' = "cmd"
    /\ UNCHANGED <<inputs, history, twice, Config, phase1, configFilePath,
                   controllerConfigFile, controllerConfigFromFile, args, err,
                   active, result, log, exitCode>>

\* The failure is logged but the process carries on with a zero configuration.
ConstructionFailsWithoutExit ==
    /\ pc = "new"
    /\ log' = Append(log, "Failed to create new controller configuration")
    /\ flagsRegistered' = TRUE
    /\ pc' = "cmd"
    /\ UNCHANGED <<inputs, history, twice, cfg, Config, phase1, configFilePath,
                   controllerConfigFile, controllerConfigFromFile, args, err,
                   active, result, exitCode>>

\* NewControllerConfiguration fails: log and os.Exit(1).
ConstructionFails ==
    /\ pc = "new"
    /\ log' = Append(log, "Failed to create new controller configuration")
    /\ exitCode' = 1
    /\ pc' = "exited"
    /\ UNCHANGED <<inputs, history, twice, cfg, Config, flagsRegistered, phase1,
                   configFilePath, controllerConfigFile,
                   controllerConfigFromFile, args, err, active, result>>

\* The command framework parses the argument vector onto the registered flags
\* and enters RunE, which calls loadConfigFromFile with controllerFlags.Config.
Execute ==
    /\ pc = "cmd"
    /\ LET b == ParseFlags(Bound(cfg, Config), allArgs)
       IN  /\ cfg' = b.cfg
           /\ Config' = b.Config
           /\ phase1' = b.cfg
           /\ configFilePath' = b.Config
    /\ call' = 1
    /\ pc' = "fnA"
    /\ UNCHANGED <<inputs, history, firstCfg, flagsRegistered,
                   controllerConfigFile, controllerConfigFromFile, args, err,
                   active, result, log, exitCode>>

\* ------------------------------------------------------------------------
\* loadConfigFromFile
\* ------------------------------------------------------------------------

\* Whether the file overlay is attempted.
HasConfigFileAlways(p) == TRUE
HasConfigFile(p) == Len(p) > 0

\* The order of the statements inside "if len(configFilePath) > 0": the
\* position reached when the statement at position step has succeeded.
\* Here the second callback call is placed before the flags are re-parsed.
ThenValidatingBeforeReparse(step) ==
    CASE step = "abs" -> "loader"
      [] step = "loader" -> "load"
      [] step = "load" -> "copy"
      [] step = "copy" -> "fnB"
      [] step = "fnB" -> "find"
      [] step = "find" -> "parse"
      [] step = "parse" -> "ret"

Then(step) ==
    CASE step = "abs" -> "loader"
      [] step = "loader" -> "load"
      [] step = "load" -> "copy"
      [] step = "copy" -> "find"
      [] step = "find" -> "parse"
      [] step = "parse" -> "fnB"
      [] step = "fnB" -> "ret"

\* The first callback's error is not checked before the file is consulted.
AfterPhaseAIgnoringError(e, p) == IF HasConfigFile(p) THEN "abs" ELSE "ret"

\* Where loadConfigFromFile goes after the first callback call returned e.
AfterPhaseA(e, p) ==
    IF e # nil THEN "ret" ELSE IF HasConfigFile(p) THEN "abs" ELSE "ret"

\* One call of the validation callback on the live configuration.
CallFn ==
    /\ fnSeen' = Append(fnSeen, cfg)
    /\ active' = fnApply(active, cfg)
    /\ steps' = Append(steps, "fn")
    /\ err' = fnResult(cfg)

\* if err := fn(); err != nil { return err }
ValidatePhaseA ==
    /\ pc = "fnA"
    /\ CallFn
    /\ pc' = AfterPhaseA(fnResult(cfg), configFilePath)
    /\ UNCHANGED <<inputs, twice, cfg, Config, flagsRegistered, phase1,
                   configFilePath, controllerConfigFile,
                   controllerConfigFromFile, args, runArgs, runReturns, result, log,
                   exitCode>>

\* filepath.Abs(configFilePath); it fails when the working directory cannot
\* be determined.
ResolvePath ==
    /\ pc = "abs"
    /\ steps' = Append(steps, "Abs")
    /\ \E ok \in BOOLEAN :
        IF ok
        THEN /\ controllerConfigFile' = Abs(configFilePath)
             /\ pc' = Then("abs")
             /\ err' = err
        ELSE /\ err' = LoadError(configFilePath, "getwd")
             /\ pc' = "ret"
             /\ controllerConfigFile' = controllerConfigFile
    /\ UNCHANGED <<inputs, twice, cfg, Config, flagsRegistered, phase1,
                   configFilePath, controllerConfigFromFile, args, fnSeen,
                   active, runArgs, runReturns, result, log, exitCode>>

\* configfile.NewConfigurationFSLoader(nil, controllerConfigFile)
NewLoader ==
    /\ pc = "loader"
    /\ steps' = Append(steps, "NewConfigurationFSLoader")
    /\ \E ok \in BOOLEAN :
        IF ok
        THEN /\ pc' = Then("loader")
             /\ err' = err
        ELSE /\ err' = LoadError(configFilePath, "loader")
             /\ pc' = "ret"
    /\ UNCHANGED <<inputs, twice, cfg, Config, flagsRegistered, phase1,
                   configFilePath, controllerConfigFile,
                   controllerConfigFromFile, args, fnSeen, active, runArgs, runReturns,
                   result, log, exitCode>>

\* Load's error is not checked: the freshly defaulted object is used as it is.
LoadIgnoringFailure ==
    /\ pc = "load"
    /\ steps' = Append(steps, "Load")
    /\ controllerConfigFromFile' =
          (IF LoadFailure(file) = "" THEN LoadedConfig(file.doc)
           ELSE NewControllerConfiguration)
    /\ pc' = Then("load")
    /\ UNCHANGED <<inputs, twice, cfg, Config, flagsRegistered, phase1,
                   configFilePath, controllerConfigFile, args, err, fnSeen,
                   active, runArgs, runReturns, result, log, exitCode>>

\* controllerConfigFromFile := controllerconfigfile.New(); loader.Load(...)
Load ==
    /\ pc = "load"
    /\ steps' = Append(steps, "Load")
    /\ IF LoadFailure(file) = ""
       THEN /\ controllerConfigFromFile' = LoadedConfig(file.doc)
            /\ pc' = Then("load")
            /\ err' = err
       ELSE /\ err' = LoadError(configFilePath, LoadFailure(file))
            /\ pc' = "ret"
            /\ controllerConfigFromFile' = controllerConfigFromFile
    /\ UNCHANGED <<inputs, twice, cfg, Config, flagsRegistered, phase1,
                   configFilePath, controllerConfigFile, args, fnSeen, active,
                   runArgs, runReturns, result, log, exitCode>>

\* controllerConfigFromFile.Config.DeepCopyInto(cfg): every field of the live
\* configuration is replaced.
DeepCopyIntoNothing(from, to) == to
DeepCopyInto(from, to) == from

OverlayFile ==
    /\ pc = "copy"
    /\ steps' = Append(steps, "DeepCopyInto")
    /\ cfg' = DeepCopyInto(controllerConfigFromFile, cfg)
    /\ pc' = Then("copy")
    /\ UNCHANGED <<inputs, twice, Config, flagsRegistered, phase1,
                   configFilePath, controllerConfigFile,
                   controllerConfigFromFile, args, err, fnSeen, active,
                   runArgs, runReturns, result, log, exitCode>>

\* The arguments Find returns for the command: the command is the root, so
\* nothing is stripped from the argument vector.
FoundArgsWithoutFlags(a) == <<>>
FoundArgs(a) == a

\* _, args, err := cmd.Root().Find(allArgs)
Find ==
    /\ pc = "find"
    /\ steps' = Append(steps, "Find")
    /\ \E ok \in BOOLEAN :
        IF ok
        THEN /\ args' = FoundArgs(allArgs)
             /\ pc' = Then("find")
             /\ err' = err
        ELSE /\ err' = ReparseError("unknown command")
             /\ pc' = "ret"
             /\ args' = args
    /\ UNCHANGED <<inputs, twice, cfg, Config, flagsRegistered, phase1,
                   configFilePath, controllerConfigFile,
                   controllerConfigFromFile, fnSeen, active, runArgs, runReturns, result,
                   log, exitCode>>

\* The re-parse left out: the live configuration stays as the file left it.
ReparseFlagsLeftOut ==
    /\ pc = "parse"
    /\ steps' = Append(steps, "ParseFlags")
    /\ pc' = Then("parse")
    /\ UNCHANGED <<inputs, twice, cfg, Config, flagsRegistered, phase1,
                   configFilePath, controllerConfigFile,
                   controllerConfigFromFile, args, err, fnSeen, active,
                   runArgs, runReturns, result, log, exitCode>>

\* cmd.ParseFlags(args) succeeds: the typed flags are set again.
ReparseFlags ==
    /\ pc = "parse"
    /\ steps' = Append(steps, "ParseFlags")
    /\ LET b == ParseFlags(Bound(cfg, Config), args)
       IN  /\ cfg' = b.cfg
           /\ Config' = b.Config
    /\ pc' = Then("parse")
    /\ UNCHANGED <<inputs, twice, flagsRegistered, phase1, configFilePath,
                   controllerConfigFile, controllerConfigFromFile, args, err,
                   fnSeen, active, runArgs, runReturns, result, log, exitCode>>

\* The error of the re-parse is not checked: the merge goes on with the flags
\* that were set before the failure.
ReparseFlagsFailsUnchecked ==
    /\ pc = "parse"
    /\ steps' = Append(steps, "ParseFlags")
    /\ \E k \in 1..Len(args) :
        LET b == ParseFlags(Bound(cfg, Config), SubSeq(args, 1, k - 1))
        IN  /\ cfg' = b.cfg
            /\ Config' = b.Config
    /\ pc' = Then("parse")
    /\ UNCHANGED <<inputs, twice, flagsRegistered, phase1, configFilePath,
                   controllerConfigFile, controllerConfigFromFile, args, err,
                   fnSeen, active, runArgs, runReturns, result, log, exitCode>>

\* cmd.ParseFlags(args) fails at the k-th argument: the flags before it have
\* been set, the others have not.
ReparseFlagsFails ==
    /\ pc = "parse"
    /\ steps' = Append(steps, "ParseFlags")
    /\ \E k \in 1..Len(args) :
        LET b == ParseFlags(Bound(cfg, Config), SubSeq(args, 1, k - 1))
        IN  /\ cfg' = b.cfg
            /\ Config' = b.Config
    /\ err' = ReparseError("invalid argument")
    /\ pc' = "ret"
    /\ UNCHANGED <<inputs, twice, flagsRegistered, phase1, configFilePath,
                   controllerConfigFile, controllerConfigFromFile, args,
                   fnSeen, active, runArgs, runReturns, result, log, exitCode>>

\* if err := fn(); err != nil { return err }; return nil
ValidatePhaseB ==
    /\ pc = "fnB"
    /\ CallFn
    /\ pc' = IF fnResult(cfg) # nil THEN "ret" ELSE Then("fnB")
    /\ UNCHANGED <<inputs, twice, cfg, Config, flagsRegistered, phase1,
                   configFilePath, controllerConfigFile,
                   controllerConfigFromFile, args, runArgs, runReturns, result, log,
                   exitCode>>

\* ------------------------------------------------------------------------
\* RunE after loadConfigFromFile has returned
\* ------------------------------------------------------------------------

\* Whether RunE goes on to run for the error loadConfigFromFile returned.
StartsRunRegardless(e) == TRUE
StartsRun(e) == e = nil

\* if err := loadConfigFromFile(...); err != nil { return err }
ReturnError ==
    /\ pc = "ret"
    /\ ~StartsRun(err)
    /\ result' = err
    /\ pc' = "done"
    /\ UNCHANGED <<inputs, history, twice, cfg, Config, flagsRegistered, phase1,
                   configFilePath, controllerConfigFile,
                   controllerConfigFromFile, args, err, active, log, exitCode>>

\* What RunE returns when run has returned r.
RunEReturnDroppingError(r) == nil
RunEReturn(r) == r

\* return run(ctx, controllerConfig)
Run ==
    /\ pc = "ret"
    /\ StartsRun(err)
    /\ runArgs' = Append(runArgs, cfg)
    /\ \E r \in {nil, RunError} :
        /\ runReturns' = Append(runReturns, r)
        /\ result' = RunEReturn(r)
    /\ pc' = "done"
    /\ UNCHANGED <<inputs, twice, steps, fnSeen, cfg, Config, flagsRegistered,
                   phase1, configFilePath, controllerConfigFile,
                   controllerConfigFromFile, args, err, active, log, exitCode>>

\* The steps of newServerCommand, the framework and loadConfigFromFile.
Startup ==
    \/ ConstructCommand
    \/ ConstructionFails
    \/ Execute
    \/ ValidatePhaseA
    \/ ResolvePath
    \/ NewLoader
    \/ Load
    \/ OverlayFile
    \/ Find
    \/ ReparseFlags
    \/ ReparseFlagsFails
    \/ ValidatePhaseB

Next ==
    \/ Startup
    \/ ReturnError
    \/ Run

Spec == Init /\ [][Next]_vars

\* ------------------------------------------------------------------------
\* loadConfigFromFile invoked a second time with the same arguments
\* ------------------------------------------------------------------------

\* After a first successful return the function is called again on the same
\* command, argument vector, path, live configuration and callback.
InvokeAgain ==
    /\ pc = "ret"
    /\ err = nil
    /\ call = 1
    /\ call' = 2
    /\ firstCfg' = cfg
    /\ pc' = "fnA"
    /\ UNCHANGED <<inputs, history, cfg, Config, flagsRegistered, phase1,
                   configFilePath, controllerConfigFile,
                   controllerConfigFromFile, args, err, active, result, log,
                   exitCode>>

NextTwice ==
    \/ Startup
    \/ InvokeAgain
    \/ ReturnError
    \/ (call = 2 /\ Run)

SpecTwice == Init /\ [][NextTwice]_vars

\* ------------------------------------------------------------------------
\* Vocabulary of the properties
\* ------------------------------------------------------------------------

\* loadConfigFromFile has returned (RunE may already have returned as well).
Returned == pc \in {"ret", "done"}
ReturnedSuccess == Returned /\ err = nil
\* The merge went through the file overlay and succeeded.
MergedWithFile == ReturnedSuccess /\ configFilePath # ""

\* The configurations a successful merge exposes: the live one, and each one
\* that was handed to run.
Resolved == {cfg} \cup {runArgs[i] : i \in 1..Len(runArgs)}

\* Every statement of loadConfigFromFile when a file is given, in order.
FullSequence ==
    <<"fn", "Abs", "NewConfigurationFSLoader", "Load", "DeepCopyInto", "Find",
      "ParseFlags", "fn">>

StepsDone == {steps[i] : i \in 1..Len(steps)}

\* Defaults overridden by the flags that were typed, field by field.
DefaultsAndFlags ==
    [x \in Fields |->
        IF x \in Typed(allArgs) THEN FlagValue(allArgs, x)
        ELSE NewControllerConfiguration[x]]

\* ------------------------------------------------------------------------
\* Properties
\* ------------------------------------------------------------------------

\* C1: after a successful merge with a configuration file, every field that is
\* set both in the file and by a typed flag holds the flag's value, in the live
\* configuration and in the configuration handed to run.
C1_FlagsWinOverFile ==
    MergedWithFile =>
        \A x \in (DOMAIN file.doc) \cap Typed(allArgs) :
            \A c \in Resolved : c[x] = FlagValue(allArgs, x)

\* A run was started with a field taken from the flag although the file sets
\* it to another value.
C1_Witness ==
    /\ pc = "done"
    /\ Len(runArgs) = 1
    /\ \E x \in (DOMAIN file.doc) \cap Typed(allArgs) :
        /\ file.doc[x] # FlagValue(allArgs, x)
        /\ runArgs[1][x] = FlagValue(allArgs, x)

\* C2: after a successful merge every field the file sets and whose flag was
\* not typed holds the file's value, and once the flags have been re-parsed
\* every field whose flag was not typed still holds what the overlay put there.
C2_FileWinsOverDefaults ==
    /\ MergedWithFile =>
        \A x \in (DOMAIN file.doc) \ Typed(allArgs) :
            \A c \in Resolved : c[x] = file.doc[x]
    /\ (pc = "fnB" \/ MergedWithFile) =>
        \A x \in Fields \ Typed(allArgs) : cfg[x] = controllerConfigFromFile[x]

\* A run was started with a field at the file's value, which is not the
\* default, while other flags were typed.
C2_Witness ==
    /\ pc = "done"
    /\ Len(runArgs) = 1
    /\ Typed(allArgs) # {}
    /\ \E x \in (DOMAIN file.doc) \ Typed(allArgs) :
        /\ file.doc[x] # NewControllerConfiguration[x]
        /\ runArgs[1][x] = file.doc[x]

\* C3: after a successful merge with a configuration file, every field whose
\* flag was typed and which the file does not set holds the flag's value, not
\* the default the file-derived object carried into the live configuration.
C3_TypedFlagSurvivesOverlay ==
    MergedWithFile =>
        \A x \in Typed(allArgs) \ DOMAIN file.doc :
            /\ controllerConfigFromFile[x] = NewControllerConfiguration[x]
            /\ \A c \in Resolved : c[x] = FlagValue(allArgs, x)

\* A run was started with a typed, non-default value of a field the file does
\* not mention.
C3_Witness ==
    /\ pc = "done"
    /\ Len(runArgs) = 1
    /\ configFilePath # ""
    /\ \E x \in Typed(allArgs) \ DOMAIN file.doc :
        /\ FlagValue(allArgs, x) # NewControllerConfiguration[x]
        /\ runArgs[1][x] = FlagValue(allArgs, x)

\* C4: with an empty config file path loadConfigFromFile calls the callback
\* once and does nothing else: no path resolution, load, deep copy or
\* re-parse; it returns the callback's result and the live configuration is
\* the result of the first flag parse.
C4_NoFileNoOverlay ==
    (configFilePath = "" /\ pc \notin {"new", "cmd", "exited", "fnA"}) =>
        /\ Returned
        /\ steps = <<"fn">>
        /\ fnSeen = <<phase1>>
        /\ err = fnResult(phase1)
        /\ cfg = phase1
        /\ cfg = DefaultsAndFlags
        /\ controllerConfigFile = ""
        /\ controllerConfigFromFile = ZeroConfig
        /\ args = <<>>

\* Without --config a run was started with a typed, non-default flag value.
C4_Witness ==
    /\ pc = "done"
    /\ configFilePath = ""
    /\ Len(runArgs) = 1
    /\ runArgs[1] # NewControllerConfiguration
    /\ steps = <<"fn">>

\* Every statement of the merge was executed and none failed.
EveryStepSucceeded ==
    /\ steps = (IF configFilePath = "" THEN <<"fn">> ELSE FullSequence)
    /\ Len(fnSeen) = Len(SelectSeq(steps, LAMBDA n : n = "fn"))
    /\ \A i \in 1..Len(fnSeen) : fnResult(fnSeen[i]) = nil
    /\ (configFilePath # "" => LoadFailure(file) = "" /\ cfg = fnSeen[2])

\* C5: run is invoked if and only if every step of the merge succeeded: it is
\* invoked at most once and only after a complete, failure-free merge, and when
\* the command returns after such a merge run has been invoked; after any
\* failure, and after the process has exited, run has not been invoked.
C5_RunIffMergeSucceeded ==
    /\ Len(runArgs) <= 1
    /\ runArgs # <<>> => (EveryStepSucceeded /\ err = nil /\ pc = "done")
    /\ (pc = "done" /\ EveryStepSucceeded) => Len(runArgs) = 1
    /\ (Returned /\ err # nil) => (runArgs = <<>> /\ ~EveryStepSucceeded)
    /\ pc = "exited" => runArgs = <<>>

\* The command returned a merge error and run was never invoked.
C5_Witness ==
    /\ pc = "done"
    /\ err # nil
    /\ result = err
    /\ runArgs = <<>>
    /\ "DeepCopyInto" \in StepsDone

\* C6: when a file is given and run is reached, the callback was invoked
\* exactly twice: first before anything was read, on the defaults-plus-flags
\* configuration, and last, after the deep copy and the re-parse, on exactly
\* the configuration handed to run. In every run a statement is executed at
\* most once, the callback at most twice.
C6_ValidationCheckpoints ==
    /\ (runArgs # <<>> /\ configFilePath # "") =>
        /\ steps = FullSequence
        /\ Len(fnSeen) = 2
        /\ fnSeen[1] = DefaultsAndFlags
        /\ fnSeen[2] = runArgs[1]
        /\ runArgs[1] = cfg
    /\ \A i, j \in 1..Len(steps) :
        (i < j /\ steps[i] = steps[j]) =>
            (steps[i] = "fn" /\ i = 1 /\ j = Len(FullSequence))
    /\ Len(steps) >= 2 => (steps[1] = "fn" /\ fnSeen[1] = phase1)

\* A run was started on a configuration that differs from the one the first
\* checkpoint validated.
C6_Witness ==
    /\ pc = "done"
    /\ Len(runArgs) = 1
    /\ Len(fnSeen) = 2
    /\ fnSeen[1] # fnSeen[2]
    /\ fnSeen[2] = runArgs[1]

\* Failures of the environment, as opposed to failures decided by the inputs.
EnvironmentFaults ==
    {"getwd", "loader", "unknown command", "invalid argument"}

\* C7: a second invocation of loadConfigFromFile on the merged configuration,
\* with the same argument vector, path and file, returns success with the live
\* configuration equal to the result of the first invocation, unless the
\* environment fails during it.
C7_MergeIdempotent ==
    (call = 2 /\ Returned) =>
        \/ err = nil /\ cfg = firstCfg
        \/ err # nil /\ err.cause \in EnvironmentFaults

\* The second invocation went through the overlay and ended with the same
\* configuration, to which both the file and the flags contribute.
C7_Witness ==
    /\ call = 2
    /\ pc = "done"
    /\ err = nil
    /\ steps = FullSequence \o FullSequence
    /\ cfg = firstCfg
    /\ cfg # phase1
    /\ cfg # controllerConfigFromFile

\* The text that sets a field's flag to the built-in default.
DefaultText(x) ==
    CASE x = "LeaderElect" -> "true"
      [] x = "Logging" -> "text"
      [] x = "FeatureGates" -> ""

\* The configuration the merge resolves for command line a and the file.
ResolvedFor(a) ==
    LET first == ParseFlags(Bound(NewControllerConfiguration, ""), a)
        overlaid == DeepCopyInto(LoadedConfig(file.doc), first.cfg)
    IN  ParseFlags(Bound(overlaid, first.Config), FoundArgs(a)).cfg

\* The same command line with x's flag typed at its default value.
WithDefaultTyped(a, x) == Append(a, <<x, DefaultText(x)>>)

\* C8 as stated: the resolved value of a field whose flag is absent equals the
\* value resolved when the flag is typed with its default.
C8_OmittedSameAsTypedDefault ==
    MergedWithFile =>
        \A x \in Fields \ Typed(allArgs) :
            cfg[x] = ResolvedFor(WithDefaultTyped(allArgs, x))[x]

\* C8 amended: the re-parse sets only the flags that were typed, so a field
\* whose flag is absent resolves to the file-derived value, while the same
\* flag typed at its default resolves to the default; the two agree exactly
\* when the file does not set the field or sets it to the default.
C8_OmittedFlagKeepsFileValue ==
    MergedWithFile =>
        /\ cfg = ResolvedFor(allArgs)
        /\ \A x \in Fields \ Typed(allArgs) :
            LET typed == ResolvedFor(WithDefaultTyped(allArgs, x))[x]
            IN  /\ cfg[x] = LoadedConfig(file.doc)[x]
                /\ typed = NewControllerConfiguration[x]
                /\ (cfg[x] = typed) <=>
                      (x \notin DOMAIN file.doc
                          \/ file.doc[x] = NewControllerConfiguration[x])

\* A merge resolved an untyped field to the file's non-default value, where
\* typing the default would have resolved the default.
C8_Witness ==
    /\ MergedWithFile
    /\ pc = "done"
    /\ \E x \in (DOMAIN file.doc) \ Typed(allArgs) :
        /\ cfg[x] = file.doc[x]
        /\ cfg[x] # ResolvedFor(WithDefaultTyped(allArgs, x))[x]

\* loadConfigFromFile returned from path resolution, loader construction or
\* Load.
LoadStepFailed ==
    /\ Returned
    /\ steps # <<>>
    /\ steps[Len(steps)] \in {"Abs", "NewConfigurationFSLoader", "Load"}

\* C9: when path resolution, loader construction or Load fails, the returned
\* error names the config file path as typed and the cause, the callback is not
\* invoked a second time and run is not started; a file that is missing or
\* does not decode makes Load fail.
C9_FileFailureFatalAndNamed ==
    /\ LoadStepFailed =>
        /\ err.msg = "failed to load config file"
        /\ \E i \in 1..Len(allArgs) : allArgs[i] = <<"config", err.path>>
        /\ err.cause \in
              {"getwd", "loader", "no such file or directory",
               "couldn't decode", "unsupported kind"}
        /\ (steps[Len(steps)] = "Load" => err.cause = LoadFailure(file))
        /\ Len(fnSeen) = 1
        /\ runArgs = <<>>
        /\ (pc = "done" => result = err)
    /\ ("Load" \in StepsDone /\ file.kind # "doc") =>
        (LoadStepFailed /\ steps[Len(steps)] = "Load")

\* The command returned the error that names the missing file.
C9_Witness ==
    /\ pc = "done"
    /\ file.kind = "missing"
    /\ result = Error("failed to load config file", ConfigPath,
                      "no such file or directory")
    /\ runArgs = <<>>

\* C10: when building the default configuration fails, the failure is logged
\* and the process exits with a non-zero status and stays exited: no command
\* is constructed, no flag is registered or parsed, and neither the callback
\* nor run is ever invoked.
C10_ConstructionFailureTerminal ==
    (log # <<>> \/ exitCode # -1 \/ pc = "exited") =>
        /\ pc = "exited"
        /\ log = <<"Failed to create new controller configuration">>
        /\ exitCode > 0
        /\ ~flagsRegistered
        /\ cfg = ZeroConfig
        /\ Config = ""
        /\ call = 0
        /\ steps = <<>>
        /\ fnSeen = <<>>
        /\ runArgs = <<>>

\* The process exited on a construction failure although flags that would
\* have been parsed were given.
C10_Witness ==
    /\ pc = "exited"
    /\ exitCode = 1
    /\ log # <<>>
    /\ Len(allArgs) > 0

\* C11: when the command action has returned, its result is nil exactly when
\* the merge succeeded and run returned nil; after a failed merge the result is
\* the merge's error and run was not invoked; after a successful merge run was
\* invoked exactly once, on the live configuration, and the result is what
\* that call returned.
C11_ResultIsFirstFailure ==
    pc = "done" =>
        /\ (result = nil) <=>
              (EveryStepSucceeded /\ err = nil /\ runReturns = <<nil>>)
        /\ err # nil =>
              (result = err /\ runArgs = <<>> /\ runReturns = <<>>)
        /\ err = nil =>
              /\ EveryStepSucceeded
              /\ runArgs = <<cfg>>
              /\ Len(runReturns) = 1
              /\ result = runReturns[1]

\* The merge succeeded with a file, run failed, and the command returned
\* run's error.
C11_Witness ==
    /\ pc = "done"
    /\ err = nil
    /\ configFilePath # ""
    /\ runReturns = <<RunError>>
    /\ result = RunError

\* The first callback call found the configuration invalid.
PhaseAFailed ==
    /\ fnSeen # <<>>
    /\ ~(LoggingValid(fnSeen[1]) /\ GatesValid(fnSeen[1]))

\* C12: when the first callback call returns an error, loadConfigFromFile
\* returns that error at once, also when a config file path is given: the path
\* is not resolved, the file not loaded, the flags not re-parsed and the
\* callback not called again.
C12_PhaseAFailureStopsMerge ==
    PhaseAFailed =>
        /\ Returned
        /\ err # nil
        /\ err = fnResult(fnSeen[1])
        /\ err.msg \in
              {"failed to validate controller logging flags",
               "failed to set feature gates from initial flags-based config"}
        /\ steps = <<"fn">>
        /\ Len(fnSeen) = 1
        /\ controllerConfigFile = ""
        /\ controllerConfigFromFile = ZeroConfig
        /\ args = <<>>
        /\ runArgs = <<>>
        /\ (pc = "done" => result = err)

\* A config file that would load was given, and the command returned the
\* phase-A error without touching it.
C12_Witness ==
    /\ pc = "done"
    /\ PhaseAFailed
    /\ configFilePath # ""
    /\ file.kind = "doc"
    /\ result = fnResult(phase1)
    /\ steps = <<"fn">>

\* loadConfigFromFile returned the error of a statement that precedes the
\* deep copy.
FailedBeforeOverlay ==
    /\ Returned
    /\ err # nil
    /\ steps # <<>>
    /\ \/ steps = <<"fn">>
       \/ steps[Len(steps)] \in {"Abs", "NewConfigurationFSLoader", "Load"}

\* C13: the merge writes the live configuration only after the file has
\* loaded: until the deep copy is executed the live configuration is the
\* phase-1 parse result, the deep copy is executed only after a successful
\* Load, and after a failure of phase A, path resolution, loader construction
\* or Load it has not been executed.
C13_LiveConfigWrittenAfterLoad ==
    /\ (pc \notin {"new", "cmd", "exited"} /\ "DeepCopyInto" \notin StepsDone) =>
        (cfg = phase1 /\ cfg = DefaultsAndFlags)
    /\ "DeepCopyInto" \in StepsDone =>
        /\ "Load" \in StepsDone
        /\ LoadFailure(file) = ""
        /\ controllerConfigFromFile = LoadedConfig(file.doc)
        /\ ~PhaseAFailed
    /\ FailedBeforeOverlay =>
        ("DeepCopyInto" \notin StepsDone /\ cfg = phase1)

\* Load failed on a file that does not decode and the typed flags are still
\* in the live configuration.
C13_Witness ==
    /\ pc = "done"
    /\ file.kind = "garbage"
    /\ FailedBeforeOverlay
    /\ steps[Len(steps)] = "Load"
    /\ cfg = phase1
    /\ cfg # NewControllerConfiguration

\* The file-derived configuration with the flags of a re-applied.
OverlaidWith(a) ==
    [x \in Fields |->
        IF x \in Typed(a) THEN FlagValue(a, x) ELSE LoadedConfig(file.doc)[x]]

\* loadConfigFromFile returned from Find or from the re-parse.
ReparseFailed ==
    /\ Returned
    /\ steps # <<>>
    /\ steps[Len(steps)] \in {"Find", "ParseFlags"}

\* C14: when Find or ParseFlags fails, loadConfigFromFile returns a re-parse
\* error, the callback is not called a second time and run is not started; the
\* live configuration is then the file-derived one with none or only a proper
\* prefix of the typed flags re-applied. Such a configuration is never
\* validated, activated or handed to run: whatever the callback sees after the
\* overlay, and whatever run gets, has every typed flag re-applied.
C14_ReparseFailureFatal ==
    /\ ReparseFailed =>
        /\ err.msg = "failed to re-parse flags"
        /\ err.cause \in {"unknown command", "invalid argument"}
        /\ "DeepCopyInto" \in StepsDone
        /\ fnSeen = <<phase1>>
        /\ active = [Logging |-> phase1.Logging,
                     FeatureGates |-> phase1.FeatureGates]
        /\ runArgs = <<>>
        /\ (pc = "done" => result = err)
        /\ (steps[Len(steps)] = "Find" => cfg = LoadedConfig(file.doc))
        /\ (steps[Len(steps)] = "ParseFlags" =>
              \E k \in 0..(Len(allArgs) - 1) :
                  cfg = OverlaidWith(SubSeq(allArgs, 1, k)))
    /\ \A i \in 2..Len(fnSeen) : fnSeen[i] = OverlaidWith(allArgs)
    /\ configFilePath # "" =>
        \A i \in 1..Len(runArgs) : runArgs[i] = OverlaidWith(allArgs)

\* The re-parse failed after some of the typed flags had been re-applied, and
\* the command returned the re-parse error.
C14_Witness ==
    /\ pc = "done"
    /\ ReparseFailed
    /\ steps[Len(steps)] = "ParseFlags"
    /\ result = ReparseError("invalid argument")
    /\ cfg # phase1
    /\ cfg # LoadedConfig(file.doc)
    /\ cfg # OverlaidWith(allArgs)

====
